---------------------------- MODULE Spec2Model ----------------------------
(***************************************************************************)
(* Model of monitor_ram.py: a RAM watchdog that smooths host memory usage  *)
(* with an EWMA filter, fires a trigger on a sharp deviation and captures  *)
(* diagnostics (pprof endpoints, process table) into a session directory.  *)
(*                                                                         *)
(* Memory is counted in units of 512 KiB (UnitsPerMB units per megabyte),  *)
(* so that int(curr/1024/1024) is a real floor.  Python floats are        *)
(* modelled by exact rationals [n, d] in lowest terms: rounding error of   *)
(* IEEE arithmetic is not modelled.                                        *)
(***************************************************************************)
EXTENDS Integers, Sequences, FiniteSets, TLC

VARIABLES
    \* ---- process(): the monitor loop
    pc,             \* position of process(): start/baseline/init/running/crashed/exited
    argv,           \* the command line the process was started with
    args,           \* result of get_cli_args()
    curr,           \* local `curr` of process()
    starttime,      \* local `starttime` of process()
    now,            \* wall clock, seconds
    avg_ram_usage,  \* the Ewma instance of process()
    captures,       \* capture_processes() invocations so far, in order
    ticks,          \* history: one record per completed loop iteration
    \* ---- a stand-alone Ewma instance and a twin created at the last reset
    flt, twin, e_alpha, e_seed, e_hist, e_resets, e_last,
    \* ---- one call of capture_pprof()
    pp_pc, pp_i, response, pp_files, pp_requested, pp_outcome, pp_fs,
    \* ---- one call of capture_processes()
    ps_pc, ps_table, ps_fs, ps_file,
    \* ---- one evaluation of the tick's filter/trigger step on two samples
    tr_pc, tr_avg, tr_args, tr_probe, tr_out

monVars   == <<pc, argv, args, curr, starttime, now, avg_ram_usage, captures, ticks>>
ewmaVars  == <<flt, twin, e_alpha, e_seed, e_hist, e_resets, e_last>>
pprofVars == <<pp_pc, pp_i, response, pp_files, pp_requested, pp_outcome, pp_fs>>
procVars  == <<ps_pc, ps_table, ps_fs, ps_file>>
trigVars  == <<tr_pc, tr_avg, tr_args, tr_probe, tr_out>>
vars      == <<monVars, ewmaVars, pprofVars, procVars, trigVars>>

-----------------------------------------------------------------------------
(* Bounds of the model                                                     *)

MaxTicks   == 4     \* loop iterations of process() explored
MaxEwmaOps == 4     \* update/reset calls on the stand-alone filter
MaxProcs   == 102   \* largest process table handed to capture_processes

-----------------------------------------------------------------------------
(* Exact arithmetic standing for Python's float arithmetic                 *)

RECURSIVE GCD(_, _)
GCD(a, b) == IF b = 0 THEN a ELSE GCD(b, a % b)

IAbs(i) == IF i < 0 THEN -i ELSE i

Norm(n, d) ==
    LET g == GCD(IAbs(n), d)
    IN  [n |-> n \div g, d |-> d \div g]

FromInt(i) == [n |-> i, d |-> 1]

Rat(n, d) == Norm(n, d)

RAdd(a, b) ==
    LET l == (a.d \div GCD(a.d, b.d)) * b.d
    IN  Norm(a.n * (l \div a.d) + b.n * (l \div b.d), l)

RNeg(a) == [n |-> -a.n, d |-> a.d]

RSub(a, b) == RAdd(a, RNeg(b))

RMul(a, b) ==
    LET g1 == GCD(IAbs(a.n), b.d)
        g2 == GCD(IAbs(b.n), a.d)
    IN  IF a.n = 0 \/ b.n = 0 THEN FromInt(0)
        ELSE Norm((a.n \div g1) * (b.n \div g2), (a.d \div g2) * (b.d \div g1))

RAbs(a) == [n |-> IAbs(a.n), d |-> a.d]

RGt(a, b) == a.n * b.d > b.n * a.d

RLe(a, b) == ~RGt(a, b)

-----------------------------------------------------------------------------
(* class Ewma                                                              *)

\* Ewma.__init__(alpha, initial_value)
Ewma_init(alpha, initial_value) == [alpha |-> alpha, val |-> initial_value]

\* faulty variant: the two weights exchanged
Ewma_update_swapped(self, new_sample) ==
    [self EXCEPT !.val = RAdd(RMul(self.alpha, self.val),
                              RMul(RSub(FromInt(1), self.alpha), new_sample))]

\* faulty variant: the old value is not scaled down by (1-alpha)
Ewma_update_unscaled(self, new_sample) ==
    [self EXCEPT !.val = RAdd(self.val, RMul(self.alpha, new_sample))]

\* Ewma.update: self.val = (1-self.alpha)*self.val + self.alpha*new_sample
Ewma_update(self, new_sample) ==
    [self EXCEPT !.val = RAdd(RMul(RSub(FromInt(1), self.alpha), self.val),
                              RMul(self.alpha, new_sample))]

\* faulty variant: the reset goes through the smoothing instead of overriding it
Ewma_reset_smoothed(self, val) == Ewma_update(self, val)

\* Ewma.reset: self.val = val
Ewma_reset(self, val) == [self EXCEPT !.val = val]

-----------------------------------------------------------------------------
(* Inputs                                                                  *)

UnitsPerMB == 2     \* 1024*1024 bytes, in units of 512 KiB

MBs(m) == m * UnitsPerMB

\* readings psutil.virtual_memory().used can return: 1000 MB, 2100.5 MB, 2200 MB
Samples == {MBs(1000), MBs(2100) + 1, MBs(2200)}

\* values of --ewma_alpha: 0.1 (the default), 0.5, 1.0 and 1.5 (outside (0,1])
Alphas == {Rat(1, 10), Rat(1, 2), Rat(1, 1), Rat(3, 2)}

ValidAlpha(a) == a.n > 0 /\ a.n <= a.d

-----------------------------------------------------------------------------
(* Idle values: each specification drives one group of variables and      *)
(* leaves the other groups at these values.                                *)

NoFilter == Ewma_init(FromInt(0), FromInt(0))

MonIdle ==
    /\ pc = "idle" /\ argv = <<>> /\ args = <<>> /\ curr = 0 /\ starttime = 0
    /\ now = 0 /\ avg_ram_usage = NoFilter /\ captures = <<>> /\ ticks = <<>>

EwmaIdle ==
    /\ flt = NoFilter /\ twin = NoFilter /\ e_alpha = FromInt(0) /\ e_seed = 0
    /\ e_hist = <<>> /\ e_resets = 0 /\ e_last = "idle"

PprofIdle ==
    /\ pp_pc = "idle" /\ pp_i = 0 /\ response = <<>> /\ pp_files = <<>>
    /\ pp_requested = <<>> /\ pp_outcome = <<>> /\ pp_fs = <<>>

ProcIdle ==
    /\ ps_pc = "idle" /\ ps_table = <<>> /\ ps_fs = TRUE /\ ps_file = <<>>

TrigIdle ==
    /\ tr_pc = "idle" /\ tr_avg = NoFilter /\ tr_args = <<>> /\ tr_probe = <<>>
    /\ tr_out = <<>>

-----------------------------------------------------------------------------
(* Specification SpecEwma: one Ewma instance driven by arbitrary calls     *)

InitEwma ==
    /\ e_alpha \in Alphas
    /\ e_seed \in Samples
    /\ flt = Ewma_init(e_alpha, FromInt(e_seed))
    /\ twin = flt
    /\ e_hist = <<>>
    /\ e_resets = 0
    /\ e_last = "init"
    /\ MonIdle /\ PprofIdle /\ ProcIdle /\ TrigIdle

\* flt.update(s); the twin created at the last reset receives the same sample
DoUpdate(s) ==
    /\ e_last # "idle"
    /\ Len(e_hist) + e_resets < MaxEwmaOps
    /\ flt' = Ewma_update(flt, FromInt(s))
    /\ twin' = Ewma_update(twin, FromInt(s))
    /\ e_hist' = Append(e_hist, s)
    /\ e_last' = "update"
    /\ UNCHANGED <<e_alpha, e_seed, e_resets, monVars, pprofVars, procVars, trigVars>>

\* flt.reset(v); twin = Ewma(alpha, v) is constructed afresh
DoReset(v) ==
    /\ e_last # "idle"
    /\ Len(e_hist) + e_resets < MaxEwmaOps
    /\ flt' = Ewma_reset(flt, FromInt(v))
    /\ twin' = Ewma_init(e_alpha, FromInt(v))
    /\ e_seed' = v
    /\ e_hist' = <<>>
    /\ e_resets' = e_resets + 1
    /\ e_last' = "reset"
    /\ UNCHANGED <<e_alpha, monVars, pprofVars, procVars, trigVars>>

NextEwma ==
    \/ \E s \in Samples : DoUpdate(s)
    \/ \E v \in Samples : DoReset(v)

SpecEwma == InitEwma /\ [][NextEwma]_vars

-----------------------------------------------------------------------------
(* Claims about the filter                                                 *)

RECURSIVE RPow(_, _)
RPow(a, k) == IF k = 0 THEN FromInt(1) ELSE RMul(a, RPow(a, k - 1))

\* a*s_n + a(1-a)*s_{n-1} + ... + a(1-a)^(n-1)*s_1 + (1-a)^n*s_0
ClosedForm(a, s0, h) ==
    LET n == Len(h)
        q == RSub(FromInt(1), a)
        Sum[i \in 0..n] ==
            IF i = 0 THEN RMul(RPow(q, n), FromInt(s0))
            ELSE RAdd(Sum[i - 1], RMul(RMul(a, RPow(q, n - i)), FromInt(h[i])))
    IN  Sum[n]

\* C8: for alpha in (0,1], after n updates with no reset in between the value
\* of the filter is the closed-form weighted sum of the seed and the samples.
C8_ClosedForm ==
    (e_last # "idle" /\ ValidAlpha(e_alpha))
        => flt.val = ClosedForm(e_alpha, e_seed, e_hist)

C8_Witness ==
    /\ e_resets = 0 /\ Len(e_hist) = 3 /\ ValidAlpha(e_alpha)
    /\ e_alpha # FromInt(1)
    /\ e_hist[1] # e_hist[2] /\ e_hist[2] # e_hist[3] /\ e_hist[1] # e_seed

\* C10: right after reset(v) the value is exactly v and alpha is the alpha the
\* filter was created with; from then on the filter and a fresh filter
\* Ewma(alpha, v) fed the same samples hold the same value.
C10_ResetIsFresh ==
    /\ e_last = "reset" => (flt.val = FromInt(e_seed) /\ flt.alpha = e_alpha)
    /\ e_resets > 0 => (flt.val = twin.val /\ flt.alpha = twin.alpha)

C10_Witness ==
    /\ e_resets = 1 /\ Len(e_hist) = 2 /\ e_last = "update"
    /\ e_hist[1] # e_seed /\ e_hist[2] # e_hist[1]
    /\ flt.val # FromInt(e_seed)

-----------------------------------------------------------------------------
(* format_bytes and capture_processes                                      *)

TOP_N == 100        \* sorted_processes[:100]

Units == <<"B", "KB", "MB", "GB", "TB", "PB", "EB", "ZB", "YB">>

\* format_bytes(bytes_num): divide by 1000.0 while >= 1000 and a larger unit
\* exists, then print with two decimals.  The text "<x.yz> <unit>" is modelled
\* by [hundredths, unit]; the rounding of the exact quotient is half-to-even.
RECURSIVE format_bytes_loop(_, _)
format_bytes_loop(bytes_num, unit_index) ==
    IF RLe(FromInt(1000), bytes_num) /\ unit_index < Len(Units)
    THEN format_bytes_loop(RMul(bytes_num, Rat(1, 1000)), unit_index + 1)
    ELSE [num |-> bytes_num, unit_index |-> unit_index]

format_bytes(bytes_num) ==
    LET r  == format_bytes_loop(FromInt(bytes_num), 1)
        x  == RMul(r.num, FromInt(100))
        fl == x.n \div x.d
        rm == 2 * (x.n % x.d)
        up == rm > x.d \/ (rm = x.d /\ fl % 2 = 1)
    IN  [hundredths |-> IF up THEN fl + 1 ELSE fl, unit |-> Units[r.unit_index]]

\* faulty variant: ascending order
RankAsc(processes, i) ==
    1 + Cardinality({j \in 1..Len(processes) : processes[j].rss < processes[i].rss})
      + Cardinality({j \in 1..(i - 1) : processes[j].rss = processes[i].rss})

\* position of processes[i] in sorted(processes, key=lambda x: x['rss'],
\* reverse=True): after every entry with a larger rss and, the sort being
\* stable, after the earlier entries with the same rss
RankDesc(processes, i) ==
    1 + Cardinality({j \in 1..Len(processes) : processes[j].rss > processes[i].rss})
      + Cardinality({j \in 1..(i - 1) : processes[j].rss = processes[i].rss})

SortedByRss(processes) ==
    LET n    == Len(processes)
        rank == [i \in 1..n |-> RankDesc(processes, i)]
    IN  [k \in 1..n |-> processes[CHOOSE i \in 1..n : rank[i] = k]]

\* one line of processes_top100.txt
SnapshotLine(proc) == [rss |-> format_bytes(proc.rss), name |-> proc.name]

NoFile == [exists |-> FALSE, lines |-> <<>>]

\* capture_processes(outdir) run against a process table and a filesystem.
\* table: the processes psutil.process_iter yields, each [name, rss, gone];
\* gone = the process has exited or is inaccessible when proc.name() /
\* proc.memory_info() is called, which raises NoSuchProcess / AccessDenied.
\* fs: "ok", "mkdir_fails" (os.makedirs raises) or "open_fails" (open raises).
\* No exception is caught anywhere in the function: `raised` names the one
\* that escapes the call, "none" when the call returns.
capture_processes(table, fs) ==
    IF fs = "mkdir_fails"
    THEN [raised |-> "OSError", file |-> NoFile]
    ELSE IF \E i \in 1..Len(table) : table[i].gone
    THEN [raised |-> "NoSuchProcess", file |-> NoFile]
    ELSE IF fs = "open_fails"
    THEN [raised |-> "OSError", file |-> NoFile]
    ELSE LET sorted_processes == SortedByRss(table)
             top == SubSeq(sorted_processes, 1,
                           IF Len(sorted_processes) < TOP_N
                           THEN Len(sorted_processes) ELSE TOP_N)
         IN  [raised |-> "none",
              file |-> [exists |-> TRUE,
                        lines |-> [i \in 1..Len(top) |-> SnapshotLine(top[i])]]]

FsStates == {"ok", "mkdir_fails", "open_fails"}

-----------------------------------------------------------------------------
(* get_cli_args and process(): the monitor loop                            *)

DEFAULT_EWMA_ALPHA == Rat(1, 10)
DEFAULT_INTERVAL_SEC == 1
DEFAULT_TRIGGER_LEVEL_MB == 1024

\* the --ewma_alpha option as typed: absent, a number, or not a number
AlphaTokens ==
    {[kind |-> "absent", v |-> FromInt(0)], [kind |-> "bad", v |-> FromInt(0)]}
        \cup {[kind |-> "num", v |-> a] : a \in Alphas}

TriggerArgs == {DEFAULT_TRIGGER_LEVEL_MB, 512}

\* options the parser does not define: none, or a request for the
\* relative-fraction trigger variant
ExtraOptions == {"none", "relative"}

Argvs ==
    [pprof_host : BOOLEAN, ewma_alpha : AlphaTokens,
     interval : {DEFAULT_INTERVAL_SEC}, trigger : TriggerArgs,
     extra : ExtraOptions]

\* argparse: a missing positional, a value that float() rejects or an
\* unrecognized option ends the process (SystemExit); any float is accepted
\* for --ewma_alpha.
get_cli_args(av) ==
    IF ~av.pprof_host \/ av.ewma_alpha.kind = "bad" \/ av.extra # "none"
    THEN [ok |-> FALSE, args |-> <<>>]
    ELSE [ok |-> TRUE,
          args |-> [ewma_alpha |-> IF av.ewma_alpha.kind = "absent"
                                   THEN DEFAULT_EWMA_ALPHA ELSE av.ewma_alpha.v,
                    interval |-> av.interval,
                    trigger |-> av.trigger]]

\* process tables the monitor's captures run against
MonTables ==
    { <<[name |-> 1, rss |-> 8192, gone |-> FALSE],
        [name |-> 2, rss |-> 1536000, gone |-> FALSE]>>,
      <<[name |-> 1, rss |-> 8192, gone |-> FALSE],
        [name |-> 2, rss |-> 4096, gone |-> TRUE]>> }

\* int(curr/1024/1024)
UsageMB(c) == c \div UnitsPerMB

\* f"pprof_traces/{starttime}/initial_{int(curr/1024/1024)}MB"
InitialDir(st, c) == [session |-> st, kind |-> "initial", ts |-> st, mb |-> UsageMB(c)]

\* faulty variant: an event capture goes to the baseline's directory
EventDirInitial(st, ts, c) == InitialDir(st, c)

\* faulty variant: the event's own timestamp used as the session part
EventDirOwnSession(st, ts, c) ==
    [session |-> ts, kind |-> "event", ts |-> ts, mb |-> UsageMB(c)]

\* f"pprof_traces/{starttime}/{timestamp}_{int(curr/1024/1024)}MB"
EventDir(st, ts, c) == [session |-> st, kind |-> "event", ts |-> ts, mb |-> UsageMB(c)]

CaptureRecord(dir, r) ==
    [dir |-> dir, raised |-> r.raised, nlines |-> Len(r.file.lines)]

InitMonitor ==
    /\ pc = "start"
    /\ argv \in Argvs
    /\ args = <<>>
    /\ curr = 0
    /\ starttime = 0
    /\ now = 0
    /\ avg_ram_usage = NoFilter
    /\ captures = <<>>
    /\ ticks = <<>>
    /\ EwmaIdle /\ PprofIdle /\ ProcIdle /\ TrigIdle

\* line 104: args = get_cli_args()
ParseArgs ==
    /\ pc = "start"
    /\ LET r == get_cli_args(argv)
       IN  IF r.ok THEN /\ args' = r.args
                        /\ pc' = "baseline"
           ELSE /\ pc' = "exited"
                /\ UNCHANGED args
    /\ UNCHANGED <<argv, curr, starttime, now, avg_ram_usage, captures, ticks>>
    /\ UNCHANGED <<ewmaVars, pprofVars, procVars, trigVars>>

\* lines 107-112: read memory, name the session, take the baseline capture
Baseline ==
    /\ pc = "baseline"
    /\ \E used \in Samples, table \in MonTables, fs \in FsStates :
         LET r == capture_processes(table, fs)
         IN  /\ curr' = used
             /\ starttime' = now
             /\ captures' = Append(captures, CaptureRecord(InitialDir(now, used), r))
             /\ pc' = IF r.raised # "none" THEN "crashed" ELSE "init"
    /\ UNCHANGED <<argv, args, now, avg_ram_usage, ticks>>
    /\ UNCHANGED <<ewmaVars, pprofVars, procVars, trigVars>>

\* line 115: avg_ram_usage = Ewma(args.ewma_alpha, psutil.virtual_memory().used)
InitFilter ==
    /\ pc = "init"
    /\ \E used \in Samples :
         avg_ram_usage' = Ewma_init(args.ewma_alpha, FromInt(used))
    /\ pc' = "running"
    /\ UNCHANGED <<argv, args, curr, starttime, now, captures, ticks>>
    /\ UNCHANGED <<ewmaVars, pprofVars, procVars, trigVars>>

\* line 131: trigger = 1024*1024*args.trigger
TriggerLevel(a) == UnitsPerMB * a.trigger

\* faulty variant: the boundary counted as a fire
SpikeOrEqual(c, avg, a) ==
    ~RGt(FromInt(TriggerLevel(a)), RAbs(RSub(FromInt(c), avg.val)))

\* faulty variant: abs() left out, only a rise fires
SpikeUpOnly(c, avg, a) ==
    RGt(RSub(FromInt(c), avg.val), FromInt(TriggerLevel(a)))

\* lines 132-133: delta = curr-avg_ram_usage.val; abs(delta) > trigger
Spike(c, avg, a) ==
    RGt(RAbs(RSub(FromInt(c), avg.val)), FromInt(TriggerLevel(a)))

\* faulty variant: the trigger is evaluated before the filter is updated
TickFilterPre(avg, used, a) ==
    LET fire == Spike(used, avg, a)
        updated == Ewma_update(avg, FromInt(used))
    IN  [fire |-> fire,
         avg |-> IF fire THEN Ewma_reset(updated, FromInt(used)) ELSE updated]

\* faulty variant: the filter is not reset on a fire
TickFilterNoReset(avg, used, a) ==
    LET updated == Ewma_update(avg, FromInt(used))
    IN  [fire |-> Spike(used, updated, a), avg |-> updated]

\* lines 123-134: update the filter, then evaluate the trigger against the
\* updated value, and reset the filter to the raw sample on a fire
TickFilter(avg, used, a) ==
    LET updated == Ewma_update(avg, FromInt(used))
        fire == Spike(used, updated, a)
    IN  [fire |-> fire,
         avg |-> IF fire THEN Ewma_reset(updated, FromInt(used)) ELSE updated]

\* lines 120-142: one iteration of the while loop
Tick ==
    /\ pc = "running"
    /\ Len(ticks) < MaxTicks
    /\ \E used \in Samples, table \in MonTables, fs \in FsStates :
         LET t == TickFilter(avg_ram_usage, used, args)
             r == capture_processes(table, fs)
             error == IF t.fire THEN r.raised ELSE "none"
             crash == error # "none"
         IN  /\ curr' = used
             /\ avg_ram_usage' = t.avg
             /\ captures' = IF t.fire
                            THEN Append(captures,
                                        CaptureRecord(EventDir(starttime, now, used), r))
                            ELSE captures
             /\ pc' = IF crash THEN "crashed" ELSE "running"
             /\ now' = IF crash THEN now ELSE now + args.interval
             /\ ticks' = Append(ticks, [start |-> avg_ram_usage.val,
                                        sample |-> used,
                                        fired |-> t.fire,
                                        end |-> t.avg.val,
                                        capture_error |-> error])
    /\ UNCHANGED <<argv, args, starttime>>
    /\ UNCHANGED <<ewmaVars, pprofVars, procVars, trigVars>>

NextMonitor == ParseArgs \/ Baseline \/ InitFilter \/ Tick

Spec == InitMonitor /\ [][NextMonitor]_vars

-----------------------------------------------------------------------------
(* Claims about the monitor loop                                           *)

Started == pc \in {"running", "crashed"} /\ Len(ticks) > 0

\* |s - v| for a tick's sample s and a filter value v
Deviation(s, v) == RAbs(RSub(FromInt(s), v))

\* threshold = trigger MB * 1024 * 1024
Threshold == FromInt(args.trigger * UnitsPerMB)

\* C2 as stated: a tick fires iff |s - v| > threshold, v the value held at the
\* start of the tick.
C2_PreUpdateRule ==
    \A i \in 1..Len(ticks) :
        ValidAlpha(args.ewma_alpha)
            => (ticks[i].fired
                   <=> RGt(Deviation(ticks[i].sample, ticks[i].start), Threshold))

\* C2 (amended): for alpha in (0,1], a tick fires iff |s - u| > threshold,
\* where u = (1-alpha)*v + alpha*s is the filter value after this tick's
\* update of the start-of-tick value v.
C2_PostUpdateRule ==
    \A i \in 1..Len(ticks) :
        ValidAlpha(args.ewma_alpha)
            => LET a == args.ewma_alpha
                   u == RAdd(RMul(RSub(FromInt(1), a), ticks[i].start),
                             RMul(a, FromInt(ticks[i].sample)))
               IN  ticks[i].fired <=> RGt(Deviation(ticks[i].sample, u), Threshold)

C2_Witness ==
    /\ Started /\ ValidAlpha(args.ewma_alpha)
    /\ \E i \in 1..Len(ticks) : ticks[i].fired
    /\ \E i \in 1..Len(ticks) :
          /\ ~ticks[i].fired
          /\ RGt(Deviation(ticks[i].sample, ticks[i].start), Threshold)

ScenarioSamples == <<MBs(1000), MBs(1000), MBs(1000), MBs(2200)>>

InScenario ==
    /\ Len(ticks) >= 4
    /\ args.ewma_alpha = Rat(1, 10)
    /\ args.trigger = 1024
    /\ ticks[1].start = FromInt(MBs(1000))
    /\ \A i \in 1..4 : ticks[i].sample = ScenarioSamples[i]

\* C3: alpha 0.1, threshold 1024 MB, seed 1000 MB, samples 1000, 1000, 1000,
\* 2200 MB: no fire on ticks 1-3, a fire on tick 4, and the filter value at
\* the end of tick 4 is exactly 2200 MB.
C3_EndToEnd ==
    InScenario
        => /\ \A i \in 1..3 : ~ticks[i].fired
           /\ ticks[4].fired
           /\ ticks[4].end = FromInt(MBs(2200))

C3_Witness == InScenario /\ ticks[4].fired

\* the samples so far hold at L for k ticks (the filter seeded at L), then
\* step to H and stay there for at least two ticks
IsStep(L, H, k) ==
    /\ Len(ticks) >= k + 2
    /\ ticks[1].start = FromInt(L)
    /\ \A i \in 1..Len(ticks) : ticks[i].sample = IF i <= k THEN L ELSE H

FiresOnlyAt(k) == \A i \in 1..Len(ticks) : ticks[i].fired <=> (i = k)

\* C4 as stated: a step from L to H with |H - L| > threshold fires exactly
\* once, on the first tick at H.
C4_StepFiresOnce ==
    \A L \in Samples, H \in Samples, k \in 1..MaxTicks :
        (/\ IsStep(L, H, k)
         /\ ValidAlpha(args.ewma_alpha)
         /\ RGt(Deviation(H, FromInt(L)), Threshold))
            => FiresOnlyAt(k + 1)

\* C4 (amended): for alpha in (0,1], a step from L to H with
\* (1-alpha)*|H - L| > threshold fires exactly once, on the first tick at H,
\* and on no later tick.
C4_DampedStepFiresOnce ==
    \A L \in Samples, H \in Samples, k \in 1..MaxTicks :
        (/\ IsStep(L, H, k)
         /\ ValidAlpha(args.ewma_alpha)
         /\ RGt(RMul(RSub(FromInt(1), args.ewma_alpha), Deviation(H, FromInt(L))),
                Threshold))
            => FiresOnlyAt(k + 1)

C4_Witness ==
    /\ pc = "running"
    /\ ValidAlpha(args.ewma_alpha)
    /\ \E L \in Samples, H \in Samples :
          /\ IsStep(L, H, 1) /\ Len(ticks) >= 4
          /\ ticks[2].fired

\* C5: a capture that fails with a filesystem error on a fired tick leaves the
\* loop in Running.
C5_LoopSurvivesFailedCapture ==
    \A i \in 1..Len(ticks) :
        (ticks[i].fired /\ ticks[i].capture_error = "OSError") => pc = "running"

BaselineCaptures == {i \in 1..Len(captures) : captures[i].dir.kind = "initial"}

\* C7: the baseline capture is invoked exactly once, before the first Running
\* tick; once Running, the loop never goes back to Baseline and leaves Running
\* by no step of its own: only an exception escaping a capture ends it.
C7_StateMachine ==
    /\ [](/\ Cardinality(BaselineCaptures) <= 1
          /\ pc \in {"start", "baseline", "exited"} => (captures = <<>> /\ ticks = <<>>)
          /\ (pc \in {"init", "running"} \/ Len(ticks) > 0)
                => (BaselineCaptures = {1} /\ captures[1].dir.session = starttime))
    /\ [][/\ pc = "running"
             => \/ pc' = "running"
                \/ /\ pc' = "crashed"
                   /\ ticks'[Len(ticks')].capture_error # "none"
          /\ pc \in {"crashed", "exited"} => pc' = pc]_vars

C7_Witness ==
    /\ pc = "running" /\ Len(ticks) = MaxTicks
    /\ Len(captures) >= 2 /\ BaselineCaptures = {1}

-----------------------------------------------------------------------------
(* Specification SpecProcs: one call of capture_processes                  *)

\* A process table of n entries: the ranks 1..n rotated by k, ascending or
\* descending; rss grows with the rank (two ranks share an rss when ties is
\* set), the name is the rank, and entry number g (if any) has gone away.
ProcTable(n, k, desc, ties, g) ==
    [i \in 1..n |->
        LET r    == ((i + k - 1) % n) + 1
            rank == IF desc THEN n + 1 - r ELSE r
        IN  [name |-> rank,
             rss  |-> 4096 * (IF ties THEN (rank + 1) \div 2 ELSE rank),
             gone |-> (i = g)]]

TableSizes == {1, 3, TOP_N - 1, TOP_N, TOP_N + 1, MaxProcs}

ProcTables ==
    {ProcTable(n, k, desc, ties, g) :
        n \in TableSizes, k \in {0, 1, 50}, desc \in BOOLEAN, ties \in BOOLEAN,
        g \in {0, 1, 3}}

InitProcs ==
    /\ ps_pc = "ready"
    /\ ps_table \in ProcTables
    /\ ps_fs \in FsStates
    /\ ps_file = NoFile
    /\ MonIdle /\ EwmaIdle /\ PprofIdle /\ TrigIdle

\* capture_processes(outdir), lines 63-93
CaptureProcessesCall ==
    /\ ps_pc = "ready"
    /\ LET r == capture_processes(ps_table, ps_fs)
       IN  /\ ps_pc' = IF r.raised = "none" THEN "returned" ELSE r.raised
           /\ ps_file' = r.file
    /\ UNCHANGED <<ps_table, ps_fs, monVars, ewmaVars, pprofVars, trigVars>>

NextProcs == CaptureProcessesCall

SpecProcs == InitProcs /\ [][NextProcs]_vars

DistinctRss(table) ==
    \A p, q \in 1..Len(table) : p # q => table[p].rss # table[q].rss

\* number of entries of the table among `among` with a larger rss than entry p
Above(table, among, p) ==
    Cardinality({q \in among : table[q].rss > table[p].rss})

\* the table entry a snapshot line was written for (names are unique here)
EntryOf(table, line) == CHOOSE p \in 1..Len(table) : table[p].name = line.name

WrittenNames(file) == {file.lines[i].name : i \in 1..Len(file.lines)}

\* C6: with a working filesystem, a process that has gone away is skipped and
\* nothing else: the call returns, the file is written, and it lists the
\* top entries of the processes that are still there.
C6_RaceSkipsEntry ==
    (ps_pc \notin {"idle", "ready"} /\ ps_fs = "ok")
        => LET alive == {p \in 1..Len(ps_table) : ~ps_table[p].gone}
           IN  /\ ps_pc = "returned"
               /\ ps_file.exists
               /\ Len(ps_file.lines) = IF Cardinality(alive) < TOP_N
                                       THEN Cardinality(alive) ELSE TOP_N
               /\ \A p \in alive :
                     Above(ps_table, alive, p) < TOP_N
                         => ps_table[p].name \in WrittenNames(ps_file)

\* C9: for a process list with pairwise distinct rss, the snapshot has
\* min(100, size) lines, they are the entries with the largest rss, and they
\* appear in strictly descending order of rss.
C9_TopN ==
    (ps_pc = "returned" /\ DistinctRss(ps_table))
        => LET n     == Len(ps_table)
               lines == ps_file.lines
           IN  /\ ps_file.exists
               /\ Len(lines) = IF n > TOP_N THEN TOP_N ELSE n
               /\ \A p \in 1..n :
                     (ps_table[p].name \in WrittenNames(ps_file))
                         <=> Above(ps_table, 1..n, p) < TOP_N
               /\ \A i \in 1..Len(lines) - 1 :
                     ps_table[EntryOf(ps_table, lines[i])].rss
                         > ps_table[EntryOf(ps_table, lines[i + 1])].rss

C9_Witness ==
    /\ ps_pc = "returned" /\ DistinctRss(ps_table)
    /\ Len(ps_table) > TOP_N
    /\ Len(ps_file.lines) = TOP_N
    /\ ps_table[1].rss < ps_table[2].rss

-----------------------------------------------------------------------------
(* Specification SpecPprof: one call of capture_pprof                      *)

\* the request paths, as their '/'-separated segments
pprof_requests ==
    << <<"debug", "pprof", "heap">>,
       <<"debug", "pprof", "goroutine">>,
       <<"debug", "pprof", "threadcreate">>,
       <<"debug", "pprof", "block">>,
       <<"debug", "pprof", "mutex">>,
       <<"debug", "pprof", "profile?seconds=5">>,
       <<"debug", "pprof", "trace?seconds=5">> >>

\* os.path.basename(request)
basename(request) == request[Len(request)]

\* the files <trace_name>.pb.gz the call can create in outdir
TraceNames == {basename(pprof_requests[i]) : i \in 1..Len(pprof_requests)}

\* the local `response` before its first assignment
Unbound == [bound |-> FALSE, content |-> <<>>]

\* response.content of a successful GET of `request`
Payload(request) == <<request>>

InitPprof ==
    /\ pp_pc = "loop"
    /\ pp_i = 1
    /\ response = Unbound
    /\ pp_files = [t \in TraceNames |-> <<>>]
    /\ pp_requested = <<>>
    /\ pp_outcome = <<>>
    /\ pp_fs \in FsStates
    /\ MonIdle /\ EwmaIdle /\ ProcIdle /\ TrigIdle

\* lines 43-59: one iteration of `for request in pprof_requests`.
\* got: requests.get returned (TRUE) or raised RequestException (FALSE), which
\* is caught and logged; the write below the try block runs either way.
PprofIteration(got) ==
    /\ pp_pc = "loop"
    /\ LET request == pprof_requests[pp_i]
           outfile == basename(request)
           resp    == IF got THEN [bound |-> TRUE, content |-> Payload(request)]
                      ELSE response
       IN  IF pp_fs = "mkdir_fails"
           THEN /\ pp_pc' = "OSError"
                /\ UNCHANGED <<pp_i, response, pp_files, pp_requested, pp_outcome>>
           ELSE /\ pp_requested' = Append(pp_requested, request)
                /\ pp_outcome' = Append(pp_outcome, got)
                /\ response' = resp
                /\ IF ~resp.bound
                   THEN /\ pp_pc' = "UnboundLocalError"
                        /\ UNCHANGED <<pp_i, pp_files>>
                   ELSE IF pp_fs = "open_fails"
                   THEN /\ pp_pc' = "OSError"
                        /\ UNCHANGED <<pp_i, pp_files>>
                   ELSE /\ pp_files' = [pp_files EXCEPT ![outfile] = resp.content]
                        /\ pp_i' = pp_i + 1
                        /\ pp_pc' = IF pp_i = Len(pprof_requests)
                                    THEN "returned" ELSE "loop"
    /\ UNCHANGED <<pp_fs, monVars, ewmaVars, procVars, trigVars>>

NextPprof == \E got \in BOOLEAN : PprofIteration(got)

SpecPprof == InitPprof /\ [][NextPprof]_vars

\* C1: whatever subset of the 7 requests fails with a transport error, the call
\* requests all 7 endpoints in order, writes a file for exactly the endpoints
\* that succeeded, and lets no exception escape.
C1_BatchResilience ==
    pp_fs = "ok"
        => /\ pp_pc \in {"idle", "loop", "returned"}
           /\ \A i \in 1..Len(pp_outcome) :
                 (pp_files[basename(pprof_requests[i])] # <<>>) <=> pp_outcome[i]
           /\ pp_pc = "returned" => pp_requested = pprof_requests

-----------------------------------------------------------------------------
(* Specification SpecTrigger: the filter/trigger step of one tick applied  *)
(* to two samples from the same start-of-tick filter                       *)

\* readings of psutil.virtual_memory().used: 0, 1000, 2100.5, 2200, 3399.5 MB
ProbeSamples == Samples \cup {0, MBs(3400) - 1}

\* what get_cli_args can return
ParsedArgs == {get_cli_args(av).args : av \in {x \in Argvs : get_cli_args(x).ok}}

InitTrigger ==
    /\ tr_pc = "ready"
    /\ tr_args \in ParsedArgs
    /\ \E v \in ProbeSamples : tr_avg = Ewma_init(tr_args.ewma_alpha, FromInt(v))
    /\ tr_probe \in ProbeSamples \X ProbeSamples
    /\ tr_out = <<>>
    /\ MonIdle /\ EwmaIdle /\ PprofIdle /\ ProcIdle

\* lines 123-134 run on each of the two samples from the same filter
EvaluateTrigger ==
    /\ tr_pc = "ready"
    /\ tr_out' = <<TickFilter(tr_avg, tr_probe[1], tr_args),
                   TickFilter(tr_avg, tr_probe[2], tr_args)>>
    /\ tr_pc' = "done"
    /\ UNCHANGED <<tr_avg, tr_args, tr_probe, monVars, ewmaVars, pprofVars, procVars>>

NextTrigger == EvaluateTrigger

SpecTrigger == InitTrigger /\ [][NextTrigger]_vars

\* C11: for a fixed start-of-tick average, alpha and threshold, if the trigger
\* fires for a sample it fires for every sample at least as far from the
\* average, on either side of it.
C11_Monotone ==
    (/\ tr_pc = "done"
     /\ RLe(Deviation(tr_probe[1], tr_avg.val), Deviation(tr_probe[2], tr_avg.val))
     /\ tr_out[1].fire)
        => tr_out[2].fire

\* a fire above the average and a sample further away below it
C11_Witness ==
    /\ tr_pc = "done"
    /\ tr_probe[1] > tr_avg.val.n /\ tr_probe[2] < tr_avg.val.n
    /\ RGt(Deviation(tr_probe[2], tr_avg.val), Deviation(tr_probe[1], tr_avg.val))
    /\ tr_out[1].fire /\ tr_out[2].fire

-----------------------------------------------------------------------------
(* Claims about the configuration and the seed                             *)

\* the relative variant's sensitivity k (0.8)
Sensitivity == Rat(4, 5)

\* C12: the relative-fraction variant can be selected by configuration, and
\* when it is, every tick fires iff sample > v*(1+k), v the pre-update
\* average, and the filter is only updated, never reset, by a tick.
C12_RelativeVariant ==
    (pc \notin {"idle", "start"} /\ argv.extra = "relative")
        => /\ pc # "exited"
           /\ \A i \in 1..Len(ticks) :
                 LET v == ticks[i].start
                     s == FromInt(ticks[i].sample)
                     a == args.ewma_alpha
                 IN  /\ ticks[i].fired
                        <=> RGt(s, RMul(v, RAdd(FromInt(1), Sensitivity)))
                     /\ ticks[i].end = RAdd(RMul(RSub(FromInt(1), a), v), RMul(a, s))

\* C13: every file <basename>.pb.gz the call has written holds the payload of
\* the response obtained for that same endpoint, never an earlier endpoint's.
C13_FileHoldsOwnPayload ==
    pp_pc # "idle"
        => \A i \in 1..Len(pprof_requests) :
              LET t == basename(pprof_requests[i])
              IN  pp_files[t] # <<>> => pp_files[t] = Payload(pprof_requests[i])

\* C14: each tick updates the filter exactly once: from the start-of-tick
\* value v and the sample s the end-of-tick value is (1-alpha)*v + alpha*s
\* when the trigger did not fire and exactly s when it fired; nothing else
\* changes the value between ticks, and alpha stays the configured alpha.
C14_EndOfTick ==
    (pc = "running" \/ Len(ticks) > 0)
        => /\ avg_ram_usage.alpha = args.ewma_alpha
           /\ \A i \in 1..Len(ticks) :
                 LET a == args.ewma_alpha
                     v == ticks[i].start
                     s == FromInt(ticks[i].sample)
                 IN  ticks[i].end = IF ticks[i].fired THEN s
                                    ELSE RAdd(RMul(RSub(FromInt(1), a), v), RMul(a, s))
           /\ \A i \in 1..Len(ticks) - 1 : ticks[i + 1].start = ticks[i].end
           /\ Len(ticks) > 0 => avg_ram_usage.val = ticks[Len(ticks)].end

C14_Witness ==
    /\ pc = "running" /\ Len(ticks) >= 3
    /\ args.ewma_alpha = Rat(1, 10)
    /\ \E i \in 1..Len(ticks) : ticks[i].fired
    /\ \E i \in 1..Len(ticks) :
          ~ticks[i].fired /\ ticks[i].end # ticks[i].start

\* C15: the filter is seeded with the very reading taken for the baseline
\* capture, the one that names the initial_<usageMB>MB directory.
C15_SeedIsBaselineReading ==
    (pc = "running" /\ ticks = <<>>)
        => /\ avg_ram_usage.val = FromInt(curr)
           /\ captures[1].dir.mb = UsageMB(avg_ram_usage.val.n)

\* C16: for alpha in (0,1] a tick fires exactly when
\* (1-alpha)*|sample - start-of-tick value| > threshold; so with alpha = 1 no
\* tick ever fires and the baseline stays the only capture.
C16_DampedRule ==
    ((pc = "running" \/ Len(ticks) > 0) /\ ValidAlpha(args.ewma_alpha))
        => /\ \A i \in 1..Len(ticks) :
                 ticks[i].fired
                     <=> RGt(RMul(RSub(FromInt(1), args.ewma_alpha),
                                  Deviation(ticks[i].sample, ticks[i].start)),
                             Threshold)
           /\ args.ewma_alpha = FromInt(1)
                 => /\ \A i \in 1..Len(ticks) : ~ticks[i].fired
                    /\ Len(captures) = 1

\* alpha = 1 and jumps above the threshold, up and down
C16_Witness ==
    /\ pc = "running" /\ Len(ticks) = MaxTicks
    /\ args.ewma_alpha = FromInt(1)
    /\ \E i, j \in 1..Len(ticks) :
          /\ RGt(RSub(FromInt(ticks[i].sample), ticks[i].start), Threshold)
          /\ RGt(RSub(ticks[j].start, FromInt(ticks[j].sample)), Threshold)

FiredTicks == {i \in 1..Len(ticks) : ticks[i].fired}

\* C17: from the baseline capture on, the number of capture invocations is 1
\* plus the number of fired ticks; a tick invokes a capture iff it fired, and
\* then exactly one; every capture directory lies under the session root named
\* at startup, which no later step changes.
C17_CapturesFollowFires ==
    /\ [](pc \in {"init", "running", "crashed"}
            => /\ Len(captures) = 1 + Cardinality(FiredTicks)
               /\ \A i \in 1..Len(captures) : captures[i].dir.session = starttime)
    /\ [][/\ pc = "running"
             => Len(captures') = Len(captures)
                                   + (IF ticks'[Len(ticks')].fired THEN 1 ELSE 0)
          /\ pc \in {"init", "running", "crashed"} => starttime' = starttime]_vars

C17_Witness ==
    /\ pc = "running" /\ now > starttime + 1
    /\ Len(captures) = 3
    /\ \E i \in 1..Len(ticks) : ~ticks[i].fired

\* the readings that reached the filter up to tick i: the seed and the samples
ReadingsUpTo(i) == {ticks[1].start} \cup {FromInt(ticks[j].sample) : j \in 1..i}

\* C18: for alpha in (0,1], after every tick (plain update or reset on a fire)
\* the filter value lies between the smallest and the largest reading taken so
\* far, the seed included.
C18_Convex ==
    (Len(ticks) > 0 /\ ValidAlpha(args.ewma_alpha))
        => /\ avg_ram_usage.val = ticks[Len(ticks)].end
           /\ \A i \in 1..Len(ticks) :
                 /\ \E lo \in ReadingsUpTo(i) : RLe(lo, ticks[i].end)
                 /\ \E hi \in ReadingsUpTo(i) : RLe(ticks[i].end, hi)

\* a reset on a fire followed by a plain update strictly inside the range
C18_Witness ==
    /\ pc = "running" /\ Len(ticks) >= 3
    /\ ValidAlpha(args.ewma_alpha)
    /\ ticks[1].fired
    /\ ~ticks[Len(ticks)].fired
    /\ \A r \in ReadingsUpTo(Len(ticks)) : r # avg_ram_usage.val

\* C19: with --ewma_alpha outside (0,1] the process stops at startup: no
\* baseline capture, no filter, no Running tick.
C19_InvalidAlphaIsFatal ==
    (/\ pc # "idle"
     /\ argv.ewma_alpha.kind = "num"
     /\ ~ValidAlpha(argv.ewma_alpha.v))
        => /\ pc \in {"start", "exited"}
           /\ captures = <<>>
           /\ avg_ram_usage = NoFilter
           /\ ticks = <<>>

=============================================================================
